---- MODULE Spec2Model ----
(***************************************************************************)
(* Assessment backend (CognitiveAccessment/Backend): the signup, login,    *)
(* session validation, logout and quiz submission handlers of endpoint.py  *)
(* and the session helpers of auth.py, over the tables of the hosted row   *)
(* store.                                                                  *)
(*                                                                         *)
(* Time is counted in days.  A table is the set (or bag) of its rows; a    *)
(* select without ORDER BY returns the matching rows in an order the store *)
(* does not promise, so "response.data[0]" is any one of the matching rows.*)
(* The random 256-bit token of secrets.token_hex(32) and the random salt   *)
(* of bcrypt.gensalt() are fresh at every call: the n-th call returns n.   *)
(*                                                                         *)
(* A handler is an operator named as in endpoint.py: the set of outcomes   *)
(* it can have in the current state for its arguments, each outcome the    *)
(* response together with the tables it leaves.  The action of the same    *)
(* name, capitalised, takes one of the outcomes.                           *)
(***************************************************************************)
EXTENDS Integers, FiniteSets, Sequences, Bags, TLC

\* ---------------------------------------------------------------- bounds
MaxTime == 7
MaxSessions == 2
MaxUsers == 2
MaxSubmits == 4

\* ------------------------------------------------------ program constants
SESSION_EXPIRY_DAYS == 7

Names == {"Al", "al"}
LoginNames == Names \cup {"%"}
Mobiles == {1}
Dobs == {"d1"}
Sections == {"A", "B", "C", "D"}
Procs == {1, 2}
\* days the clock can advance between two reads of it inside one handler
Drifts == {0, 1}

UserIds == 1..MaxUsers

\* Questions table: never written by the backend.
Questions ==
  { [question_id |-> 1, correct_answer |-> 1],
    [question_id |-> 2, correct_answer |-> 2] }

\* The answer lists a client submits (qNumber 9 is not in Questions).
AnswerLists ==
  { << [qNumber |-> 1, answer |-> 1], [qNumber |-> 2, answer |-> 1],
       [qNumber |-> 9, answer |-> 1] >>,
    << [qNumber |-> 9, answer |-> 1] >> }
TimesTaken == {30}

\* ------------------------------------------------------------------ state
VARIABLES
  now,                   \* datetime.datetime.utcnow()
  Users, Students, Sessions, Test_Completed,   \* tables (sets of rows)
  Student_Answers, Student_Section_Time,       \* tables (bags of rows)
  nextUserId,            \* the store's user_id sequence
  nextToken,             \* number of calls of secrets.token_hex, and of
                         \* bcrypt.gensalt, so far (login calls both once)
  issued,                \* what logins that created a session returned
  revoked,               \* session values whose logout succeeded
  inflight,              \* signup requests between two row-store calls
  raced,                 \* lookups two requests ran before either inserted
  failed,                \* submits that ended between their two inserts
  app                    \* the analysis page (mlforiot-main/app.py): main's locals

vars == << now, Users, Students, Sessions, Test_Completed, Student_Answers,
           Student_Section_Time, nextUserId, nextToken, issued, revoked,
           inflight, raced, failed, app >>

\* ------------------------------------------------------------- auth.py
\* secrets.token_hex(32): the n-th token drawn.
RawToken(n) == << "raw", n, 0 >>

\* bcrypt.gensalt(): the n-th salt drawn.
GenSalt(n) == n

\* bcrypt.hashpw(raw, salt): determined by the token and the salt.
hash_session_id(raw, salt) == << "hash", raw[2], salt >>

NoSession == << "none", 0, 0 >>
NoToken == << "none", 0, 0, "none" >>

\* jwt.encode({"user_id", "exp"}, SECRET_KEY): exp is drawn from the clock
\* at the call, plus SESSION_EXPIRY_DAYS.
create_jwt(user_id, t) == << "jwt", user_id, t + SESSION_EXPIRY_DAYS, "signed" >>

\* A token not signed with SECRET_KEY.
Forge(token) == << token[1], token[2], token[3], "forged" >>

\* jwt.decode: the embedded user id, or 0 (None) for a bad signature or an
\* expired token (PyJWT: expired when exp <= now).
verify_jwt(token, t) ==
  IF token[1] = "jwt" /\ token[4] = "signed" /\ t < token[3]
  THEN token[2] ELSE 0

\* verify_session on the row the select returned first.
VerifySessionRow(row, session_id, t) ==
  IF t > row.expires_at THEN FALSE ELSE session_id = row.session_id

\* verify_session: the results it can return (one per row data[0] can be).
verify_session(session_id, user_id) ==
  LET data == { r \in Sessions : r.user_id = user_id }
  IN  IF data = {} THEN {FALSE}
      ELSE { VerifySessionRow(r, session_id, now) : r \in data }

\* --------------------------------------------------------- row-store calls
\* .eq("session_id", v) on Sessions
SessionsById(v) == { r \in Sessions : r.session_id = v }

\* DeleteSession gone wrong: the delete matches no row
DeleteNoSession(v) == Sessions

\* DeleteSession gone wrong: the delete has lost its filter
DeleteEverySession(v) == {}

\* Sessions.delete().eq("session_id", v): the table afterwards
DeleteSession(v) == { r \in Sessions : r.session_id # v }

\* ExistingUser gone wrong: date_of_birth is compared with the name
ExistingUserWrongColumn(name, mobile, dob) ==
  { u \in Users : u.name = name /\ u.mobile = mobile /\ u.date_of_birth = name }

\* signup's duplicate check: .eq name, mobile, date_of_birth
ExistingUser(name, mobile, dob) ==
  { u \in Users : u.name = name /\ u.mobile = mobile /\ u.date_of_birth = dob }

Lower(s) == IF s = "Al" THEN "al" ELSE s

\* Postgres ILIKE: case-insensitive, "%" matches any string.
ILike(value, pattern) == pattern = "%" \/ Lower(value) = Lower(pattern)

\* login's user lookup: .ilike name, .eq mobile, .eq date_of_birth
LoginUsers(name, mobile, dob) ==
  { u \in Users : ILike(u.name, name) /\ u.mobile = mobile /\ u.date_of_birth = dob }

\* ExistingSession gone wrong: .lt instead of .gt
ExistingSessionLt(user_id, t) ==
  { r \in Sessions : r.user_id = user_id /\ r.expires_at < t }

\* login's active-session lookup: .eq user_id, .gt expires_at now
ExistingSession(user_id, t) ==
  { r \in Sessions : r.user_id = user_id /\ r.expires_at > t }

\* sections of the student's Student_Section_Time rows
SectionsOf(student) ==
  { r.section : r \in { x \in BagToSet(Student_Section_Time) : x.student_id = student } }

\* main before the data file is read
NoData ==
  [ pc |-> "start", data |-> << >>, dtype |-> "bool", topic_col |-> FALSE,
    selected_student |-> 0, student_section_performance |-> << >>,
    student_overall |-> << >>, avg_section_performance |-> << >>,
    avg_overall_performance |-> << 0, 1 >>, topic_performance |-> << >>,
    strengths_weaknesses |-> << >>, specific_recommendations |-> << >> ]

Init ==
  /\ now = 0
  /\ Users = {}
  /\ Students = {}
  /\ Sessions = {}
  /\ Test_Completed = {}
  /\ Student_Answers = EmptyBag
  /\ Student_Section_Time = EmptyBag
  /\ nextUserId = 1
  /\ nextToken = 0
  /\ issued = {}
  /\ revoked = {}
  /\ inflight = [ p \in Procs |-> [ pc |-> "idle", name |-> "", mobile |-> 0,
                                     date_of_birth |-> "", user_id |-> 0 ] ]
  /\ raced = {}
  /\ failed = {}
  /\ app = NoData

\* ---------------------------------------------------------------- clock
Tick ==
  /\ now < MaxTime
  /\ now' = now + 1
  /\ UNCHANGED << Users, Students, Sessions, Test_Completed, Student_Answers,
                  Student_Section_Time, nextUserId, nextToken, issued,
                  revoked, inflight, raced, failed, app >>

\* ------------------------------------------------------- POST /session
validate_session(session_id) ==
  [ valid |-> Cardinality(SessionsById(session_id)) > 0 ]

ValidateSession(session_id) ==
  /\ validate_session(session_id).valid \in BOOLEAN
  /\ UNCHANGED vars

\* -------------------------------------------------------- POST /signup
\* (age, standard, state and created_at are stored and never read in a condition)
UserRow(id, name, mobile, dob) ==
  [ user_id |-> id, name |-> name, mobile |-> mobile, date_of_birth |-> dob ]

StudentRow(id, name) == [ student_id |-> id, name |-> name ]

signup(name, mobile, dob) ==
  IF ExistingUser(name, mobile, dob) # {}
  THEN [ status |-> 400, user_id |-> 0, Users |-> Users, Students |-> Students,
         nextUserId |-> nextUserId ]
  ELSE [ status |-> 200, user_id |-> nextUserId,
         Users |-> Users \cup { UserRow(nextUserId, name, mobile, dob) },
         Students |-> Students \cup { StudentRow(nextUserId, name) },
         nextUserId |-> nextUserId + 1 ]

Signup(name, mobile, dob) ==
  LET o == signup(name, mobile, dob)
  IN  /\ o.nextUserId <= MaxUsers + 1
      /\ Users' = o.Users
      /\ Students' = o.Students
      /\ nextUserId' = o.nextUserId
      /\ UNCHANGED << now, Sessions, Test_Completed, Student_Answers,
                      Student_Section_Time, nextToken, issued, revoked,
                      inflight, raced, failed, app >>

\* --------------------------------------------------------- POST /login
\* CompletedRows gone wrong: the lookup has lost its rows
CompletedRowsNone(student) == {}

\* Test_Completed rows of the student
CompletedRows(student) == { r \in Test_Completed : r.student_id = student }

\* completed_status: FALSE when the student has no row, else the first row's
CompletedStatus(student) ==
  IF CompletedRows(student) = {} THEN {FALSE}
  ELSE { r.completed : r \in CompletedRows(student) }

\* current_section as login infers it from the Student_Section_Time rows
CurrentSection(student, completed) ==
  IF completed THEN "none"
  ELSE IF SectionsOf(student) = {} THEN "A"
  ELSE IF "C" \in SectionsOf(student) THEN "D"
  ELSE IF "B" \in SectionsOf(student) THEN "C"
  ELSE IF "A" \in SectionsOf(student) THEN "B"
  ELSE "none"

SessionRow(session_id, user_id, token, created_at, expires_at) ==
  [ session_id |-> session_id, user_id |-> user_id, token |-> token,
    created_at |-> created_at, expires_at |-> expires_at ]

\* ReturnedSessionId gone wrong: the raw token is returned
ReturnedRawToken(raw, hashed_session) == raw

\* the session_id a login that creates a session puts in its response
ReturnedSessionId(raw, hashed_session) == hashed_session

LoginOutcome(status, message, user_id, session_id, token, completed, section, sessions, test_completed, clock, tokens) ==
  [ status |-> status, message |-> message, user_id |-> user_id,
    session_id |-> session_id, token |-> token, test_completed |-> completed,
    current_section |-> section,
    Sessions |-> sessions, Test_Completed |-> test_completed, now |-> clock,
    nextToken |-> tokens ]

\* login once the Users lookup returned u and the Test_Completed lookup
\* completed.  The clock is read at the active-session lookup (now), for
\* created_at (t1), in create_jwt (t2) and for expires_at (t3).
LoginAs(u, completed) ==
  LET user_id == u.user_id
      section == CurrentSection(user_id, completed)
      existing == ExistingSession(user_id, now)
      tc == IF CompletedRows(user_id) = {}
            THEN Test_Completed \cup { [ student_id |-> user_id, completed |-> FALSE ] }
            ELSE Test_Completed
  IN  IF existing # {}
      THEN { LoginOutcome(200, "Already logged in", user_id, s.session_id,
                          s.token, completed, section, Sessions, tc, now,
                          nextToken) : s \in existing }
      ELSE LET raw == RawToken(nextToken + 1)
               hashed_session == hash_session_id(raw, GenSalt(nextToken + 1))
               clocks == { c \in Drifts \X Drifts \X Drifts :
                             c[1] <= c[2] /\ c[2] <= c[3] /\ now + c[3] <= MaxTime }
           IN  { LoginOutcome(200, "Login successful", user_id,
                   ReturnedSessionId(raw, hashed_session),
                   create_jwt(user_id, now + c[2]), completed, section,
                   Sessions \cup
                     { SessionRow(hashed_session, user_id,
                                  create_jwt(user_id, now + c[2]),
                                  now + c[1],
                                  now + c[3] + 7) },
                   tc, now + c[3], nextToken + 1) : c \in clocks }

login(name, mobile, dob) ==
  IF LoginUsers(name, mobile, dob) = {}
  THEN { LoginOutcome(401, "Invalid credentials", 0, NoSession, NoToken, FALSE,
                      "none", Sessions, Test_Completed, now, nextToken) }
  ELSE UNION { UNION { LoginAs(u, c) : c \in CompletedStatus(u.user_id) } :
                 u \in LoginUsers(name, mobile, dob) }

Login(name, mobile, dob) ==
  \E o \in login(name, mobile, dob) :
    /\ o.nextToken <= MaxSessions
    /\ Sessions' = o.Sessions
    /\ Test_Completed' = o.Test_Completed
    /\ now' = o.now
    /\ nextToken' = o.nextToken
    /\ issued' = IF o.message = "Login successful"
                 THEN issued \cup { [ user_id |-> o.user_id,
                                      session_id |-> o.session_id,
                                      token |-> o.token ] }
                 ELSE issued
    /\ UNCHANGED << Users, Students, Student_Answers, Student_Section_Time,
                    nextUserId, revoked, inflight, raced, failed, app >>

\* -------------------------------------------------------- POST /logout
logout(session_id) ==
  IF SessionsById(session_id) = {}
  THEN [ status |-> 404, message |-> "Session not found",
         Sessions |-> DeleteSession(session_id) ]
  ELSE [ status |-> 200, message |-> "Logout successful",
         Sessions |-> DeleteSession(session_id) ]

Logout(session_id) ==
  LET o == logout(session_id)
  IN  /\ Sessions' = o.Sessions
      /\ revoked' = IF o.status = 200 THEN revoked \cup { session_id }
                    ELSE revoked
      /\ UNCHANGED << now, Users, Students, Test_Completed, Student_Answers,
                      Student_Section_Time, nextUserId, nextToken, issued,
                      inflight, raced, failed, app >>

\* ------------------------------------------------------ GET /protected
\* protected_route's answer, given what verify_session returned
ProtectedResp(token, user_id, valid_session) ==
  IF verify_jwt(token, now) = 0
  THEN [ status |-> 401, message |-> "Invalid or expired token", user_id |-> 0 ]
  ELSE IF ~valid_session
  THEN [ status |-> 401, message |-> "Invalid session", user_id |-> 0 ]
  ELSE [ status |-> 200, message |-> "You are authenticated",
         user_id |-> user_id ]

protected_route(token, session_id, user_id) ==
  { ProtectedResp(token, user_id, v) : v \in verify_session(session_id, user_id) }

Protected(token, session_id, user_id) ==
  /\ protected_route(token, session_id, user_id) # {}
  /\ UNCHANGED vars

\* -------------------------------------------------------- POST /submit
\* question_data: the Questions rows of the submitted question numbers
QuestionData(answers) ==
  { q \in Questions : \E k \in 1..Len(answers) : answers[k].qNumber = q.question_id }

KnownQuestion(answers, a) ==
  \E q \in QuestionData(answers) : q.question_id = a.qNumber

CorrectAnswer(answers, a) ==
  (CHOOSE q \in QuestionData(answers) : q.question_id = a.qNumber).correct_answer

\* AnswerRow gone wrong: every answer is marked correct
AnswerRowAlwaysCorrect(userId, section, answers, a) ==
  [ answer_id |-> a.qNumber, student_id |-> userId, section |-> section,
    question_id |-> a.qNumber, selected_answer |-> a.answer,
    is_correct |-> TRUE ]

\* lines 83-92: the row appended to insert_data for an answer
AnswerRow(userId, section, answers, a) ==
  [ answer_id |-> a.qNumber, student_id |-> userId, section |-> section,
    question_id |-> a.qNumber, selected_answer |-> a.answer,
    is_correct |-> (CorrectAnswer(answers, a) = a.answer) ]

\* insert_data: one row per answer whose question is known, in order
RECURSIVE InsertData(_, _, _, _)
InsertData(userId, section, answers, k) ==
  IF k > Len(answers) THEN << >>
  ELSE IF KnownQuestion(answers, answers[k])
       THEN << AnswerRow(userId, section, answers, answers[k]) >>
              \o InsertData(userId, section, answers, k + 1)
       ELSE InsertData(userId, section, answers, k + 1)

\* results: qNumber and is_correct of each row of insert_data
RECURSIVE Results(_, _)
Results(rows, k) ==
  IF k > Len(rows) THEN << >>
  ELSE << [ qNumber |-> rows[k].question_id, is_correct |-> rows[k].is_correct ] >>
         \o Results(rows, k + 1)

\* a table after the bulk insert of rows
RECURSIVE BulkInsert(_, _, _)
BulkInsert(table, rows, k) ==
  IF k > Len(rows) THEN table
  ELSE BulkInsert(table (+) SetToBag({ rows[k] }), rows, k + 1)

\* TimeRow gone wrong: the section is left blank
TimeRowBlankSection(userId, section, timeTaken) ==
  [ student_id |-> userId, section |-> "", time_spent_seconds |-> timeTaken ]

TimeRow(userId, section, timeTaken) ==
  [ student_id |-> userId, section |-> section, time_spent_seconds |-> timeTaken ]

\* UpsertCompleted gone wrong: the flag is written false
UpsertNotCompleted(student) ==
  { r \in Test_Completed : r.student_id # student }
    \cup { [ student_id |-> student, completed |-> FALSE ] }

\* Test_Completed.upsert({student_id, completed: True})
UpsertCompleted(student) ==
  { r \in Test_Completed : r.student_id # student }
    \cup { [ student_id |-> student, completed |-> TRUE ] }

\* the section the response names as next
NextSection(section) ==
  IF section = "A" THEN "B" ELSE IF section = "B" THEN "C"
  ELSE IF section = "C" THEN "D" ELSE "none"

SubmitError(status, message) ==
  [ status |-> status, message |-> message, inserted_count |-> 0,
    results |-> << >>, time_recorded |-> FALSE, current_section |-> "none",
    Student_Answers |-> Student_Answers,
    Student_Section_Time |-> Student_Section_Time,
    Test_Completed |-> Test_Completed ]

submit_answers(userId, sessionId, section, answers, timeTaken) ==
  IF SessionsById(sessionId) = {}
  THEN SubmitError(404, "Session does not exist")
  ELSE IF QuestionData(answers) = {}
  THEN SubmitError(404, "Questions not found")
  ELSE LET insert_data == InsertData(userId, section, answers, 1)
           times == Student_Section_Time
                      (+) SetToBag({ TimeRow(userId, section, timeTaken) })
           completed_section_names ==
             { r.section : r \in { x \in BagToSet(times) :
                                     x.student_id = userId
                                     /\ x.section \in {"A", "B", "C"} } }
       IN  IF insert_data = << >>
           THEN SubmitError(400, "No valid answers to insert")
           ELSE [ status |-> 200, message |-> "success",
                  inserted_count |-> Len(insert_data),
                  results |-> Results(insert_data, 1),
                  time_recorded |-> TRUE,
                  current_section |-> NextSection(section),
                  Student_Answers |-> BulkInsert(Student_Answers, insert_data, 1),
                  Student_Section_Time |-> times,
                  Test_Completed |->
                    IF section = "D"
                       /\ {"A", "B", "C"} \subseteq completed_section_names
                    THEN UpsertCompleted(userId)
                    ELSE Test_Completed ]

Submit(userId, sessionId, section, answers, timeTaken) ==
  LET o == submit_answers(userId, sessionId, section, answers, timeTaken)
  IN  /\ BagCardinality(o.Student_Section_Time) <= MaxSubmits
      /\ Student_Answers' = o.Student_Answers
      /\ Student_Section_Time' = o.Student_Section_Time
      /\ Test_Completed' = o.Test_Completed
      /\ UNCHANGED << now, Users, Students, Sessions, nextUserId, nextToken,
                      issued, revoked, inflight, raced, failed, app >>

\* ------------------------------------------------------- request inputs
\* every session value: each token's hashes, and the raw tokens themselves
AllSessionValues ==
  { hash_session_id(RawToken(n), GenSalt(k)) :
      n \in 1..(MaxSessions + 1), k \in 1..(MaxSessions + 1) }
    \cup { RawToken(n) : n \in 1..(MaxSessions + 1) }

\* session values a client presents: the ones logins returned, and guesses
\* (the raw token behind the first session, and that token hashed again)
SessionValues ==
  { i.session_id : i \in issued }
    \cup { RawToken(1), hash_session_id(RawToken(1), GenSalt(MaxSessions + 1)) }

\* tokens a client presents: the signed ones logins returned, and a forgery
Tokens == { i.token : i \in issued } \cup { Forge(create_jwt(1, MaxTime)) }

\* what a client sends to GET /protected: the token of one login with the
\* session_id and user_id of the same or of another login, and a forged
\* token with a guessed session value
ProtectedRequests ==
  { << i.token, j.session_id, j.user_id >> : i \in issued, j \in issued }
    \cup { << Forge(create_jwt(1, MaxTime)), RawToken(1), 1 >> }

\* ---------------------------------------------------- the session pipeline
Next ==
  \/ Tick
  \/ \E n \in Names, m \in Mobiles, d \in Dobs : Signup(n, m, d)
  \/ \E n \in LoginNames, m \in Mobiles, d \in Dobs : Login(n, m, d)
  \/ \E s \in SessionValues : Logout(s)
  \/ \E s \in SessionValues : ValidateSession(s)
  \/ \E r \in ProtectedRequests : Protected(r[1], r[2], r[3])

Spec == Init /\ [][Next]_vars

\* ------------------------------------------------------- the quiz pipeline
\* One account is signed up; submits name any student id, as the handler
\* never looks the student up.
NextQuiz ==
  \/ \E m \in Mobiles, d \in Dobs : Signup("al", m, d)
  \/ \E n \in LoginNames, m \in Mobiles, d \in Dobs : Login(n, m, d)
  \/ \E u \in UserIds, s \in SessionValues, c \in Sections, a \in AnswerLists,
        t \in TimesTaken : Submit(u, s, c, a, t)

SpecQuiz == Init /\ [][NextQuiz]_vars

\* ------------------------------------ signup, one row-store call at a time
\* Requests served by different workers interleave between their row-store
\* calls; each call is atomic.
Idle ==
  [ pc |-> "idle", name |-> "", mobile |-> 0, date_of_birth |-> "",
    user_id |-> 0 ]

Triple(r) == << r.name, r.mobile, r.date_of_birth >>

\* lines 157-164: the duplicate check
SignupCheck(p, name, mobile, dob) ==
  /\ inflight[p].pc = "idle"
  /\ IF ExistingUser(name, mobile, dob) # {}
     THEN UNCHANGED << inflight, raced >>
     ELSE /\ inflight' = [ inflight EXCEPT ![p] =
                             [ pc |-> "insert_users", name |-> name,
                               mobile |-> mobile, date_of_birth |-> dob,
                               user_id |-> 0 ] ]
          /\ raced' = IF \E q \in Procs \ {p} :
                            /\ inflight[q].pc = "insert_users"
                            /\ Triple(inflight[q]) = << name, mobile, dob >>
                      THEN raced \cup { << name, mobile, dob >> }
                      ELSE raced
  /\ UNCHANGED << now, Users, Students, Sessions, Test_Completed,
                  Student_Answers, Student_Section_Time, nextUserId, nextToken,
                  issued, revoked, failed, app >>

\* lines 168-179: the Users insert; the store assigns user_id
SignupInsertUsers(p) ==
  /\ inflight[p].pc = "insert_users"
  /\ nextUserId <= MaxUsers
  /\ Users' = Users \cup { UserRow(nextUserId, inflight[p].name,
                                   inflight[p].mobile, inflight[p].date_of_birth) }
  /\ nextUserId' = nextUserId + 1
  /\ inflight' = [ inflight EXCEPT ![p] =
                     [ inflight[p] EXCEPT !.pc = "insert_students",
                                          !.user_id = nextUserId ] ]
  /\ UNCHANGED << now, Students, Sessions, Test_Completed, Student_Answers,
                  Student_Section_Time, nextToken, issued, revoked, raced, failed, app >>

\* lines 182-195: the Students insert and the response
SignupInsertStudents(p) ==
  /\ inflight[p].pc = "insert_students"
  /\ Students' = Students \cup { StudentRow(inflight[p].user_id, inflight[p].name) }
  /\ inflight' = [ inflight EXCEPT ![p] = Idle ]
  /\ UNCHANGED << now, Users, Sessions, Test_Completed, Student_Answers,
                  Student_Section_Time, nextUserId, nextToken, issued, revoked,
                  raced, failed, app >>

NextConc ==
  \/ \E p \in Procs, n \in Names, m \in Mobiles, d \in Dobs : SignupCheck(p, n, m, d)
  \/ \E p \in Procs : SignupInsertUsers(p)
  \/ \E p \in Procs : SignupInsertStudents(p)
  \/ \E n \in LoginNames, m \in Mobiles, d \in Dobs : Login(n, m, d)

SpecConc == Init /\ [][NextConc]_vars

\* ------------------------------------- login, one row-store call at a time
\* lines 200-208: the Users lookup; 401 when it returns no row.  Of the
\* request and the row found, only user_id is read in a later row-store call.
LoginSelectUser(p, name, mobile, dob) ==
  /\ inflight[p].pc = "idle"
  /\ \/ /\ LoginUsers(name, mobile, dob) = {}
        /\ UNCHANGED inflight
     \/ \E u \in LoginUsers(name, mobile, dob) :
          inflight' = [ inflight EXCEPT ![p] =
                          [ Idle EXCEPT !.pc = "test_status",
                                        !.user_id = u.user_id ] ]
  /\ UNCHANGED << now, Users, Students, Sessions, Test_Completed,
                  Student_Answers, Student_Section_Time, nextUserId, nextToken,
                  issued, revoked, raced, failed, app >>

\* lines 211-232: the Test_Completed lookup, the insert of the student's row
\* when there is none, and the Student_Section_Time lookup (which feeds the
\* response only)
LoginTestStatus(p) ==
  /\ inflight[p].pc = "test_status"
  /\ Test_Completed' =
       IF CompletedRows(inflight[p].user_id) = {}
       THEN Test_Completed
              \cup { [ student_id |-> inflight[p].user_id, completed |-> FALSE ] }
       ELSE Test_Completed
  /\ inflight' = [ inflight EXCEPT ![p].pc = "select_session" ]
  /\ UNCHANGED << now, Users, Students, Sessions, Student_Answers,
                  Student_Section_Time, nextUserId, nextToken, issued, revoked,
                  raced, failed, app >>

\* lines 235-255: the active-session lookup; "Already logged in" when it
\* returns a row
LoginSelectSession(p) ==
  /\ inflight[p].pc = "select_session"
  /\ IF ExistingSession(inflight[p].user_id, now) # {}
     THEN /\ inflight' = [ inflight EXCEPT ![p] = Idle ]
          /\ UNCHANGED raced
     ELSE /\ inflight' = [ inflight EXCEPT ![p].pc = "insert_session" ]
          /\ raced' = IF \E q \in Procs \ {p} :
                            /\ inflight[q].pc = "insert_session"
                            /\ inflight[q].user_id = inflight[p].user_id
                      THEN raced \cup { << "login", inflight[p].user_id >> }
                      ELSE raced
  /\ UNCHANGED << now, Users, Students, Sessions, Test_Completed,
                  Student_Answers, Student_Section_Time, nextUserId, nextToken,
                  issued, revoked, failed, app >>

\* lines 257-287: the Sessions insert and the response; the clock is read
\* for created_at (t1), in create_jwt (t2) and for expires_at (t3)
LoginInsertSession(p) ==
  /\ inflight[p].pc = "insert_session"
  /\ nextToken < MaxSessions
  /\ \E c \in Drifts \X Drifts \X Drifts :
       /\ c[1] <= c[2] /\ c[2] <= c[3] /\ now + c[3] <= MaxTime
       /\ LET user_id == inflight[p].user_id
              raw == RawToken(nextToken + 1)
              hashed_session == hash_session_id(raw, GenSalt(nextToken + 1))
              jwt_token == create_jwt(user_id, now + c[2])
          IN  /\ Sessions' = Sessions \cup
                   { SessionRow(hashed_session, user_id, jwt_token,
                                now + c[1], now + c[3] + 7) }
              /\ issued' = issued \cup
                   { [ user_id |-> user_id,
                       session_id |-> ReturnedSessionId(raw, hashed_session),
                       token |-> jwt_token ] }
       /\ now' = now + c[3]
  /\ nextToken' = nextToken + 1
  /\ inflight' = [ inflight EXCEPT ![p] = Idle ]
  /\ UNCHANGED << Users, Students, Test_Completed, Student_Answers,
                  Student_Section_Time, nextUserId, revoked, raced, failed, app >>

\* Logout changes Sessions by its delete call alone, so it is one step here.
NextLogins ==
  \/ Tick
  \/ \E m \in Mobiles, d \in Dobs : Signup("al", m, d)
  \/ \E p \in Procs, n \in LoginNames, m \in Mobiles, d \in Dobs :
       LoginSelectUser(p, n, m, d)
  \/ \E p \in Procs : LoginTestStatus(p)
  \/ \E p \in Procs : LoginSelectSession(p)
  \/ \E p \in Procs : LoginInsertSession(p)
  \/ \E s \in SessionValues : Logout(s)

SpecLogins == Init /\ [][NextLogins]_vars

\* ------------------------------------ submit, one row-store call at a time
\* lines 61-100: the Sessions lookup, the Questions lookup (a table no
\* request writes) and insert_data; 404, 404 or 400 end the request.  The
\* two tables only submit writes are remembered as the request found them.
SubmitPrepare(p, userId, sessionId, section, answers, timeTaken) ==
  /\ inflight[p].pc = "idle"
  /\ IF \/ SessionsById(sessionId) = {}
        \/ QuestionData(answers) = {}
        \/ InsertData(userId, section, answers, 1) = << >>
     THEN UNCHANGED inflight
     ELSE inflight' = [ inflight EXCEPT ![p] =
                          [ pc |-> "insert_answers", user_id |-> userId,
                            section |-> section,
                            insert_data |-> InsertData(userId, section, answers, 1),
                            timeTaken |-> timeTaken,
                            answers_before |-> Student_Answers,
                            times_before |-> Student_Section_Time ] ]
  /\ UNCHANGED << now, Users, Students, Sessions, Test_Completed,
                  Student_Answers, Student_Section_Time, nextUserId, nextToken,
                  issued, revoked, raced, failed, app >>

\* line 103: the bulk insert of the answers
SubmitInsertAnswers(p) ==
  /\ inflight[p].pc = "insert_answers"
  /\ BagCardinality(Student_Answers) + Len(inflight[p].insert_data)
       <= 2 * MaxSubmits
  /\ Student_Answers' = BulkInsert(Student_Answers, inflight[p].insert_data, 1)
  /\ inflight' = [ inflight EXCEPT ![p].pc = "insert_time" ]
  /\ UNCHANGED << now, Users, Students, Sessions, Test_Completed,
                  Student_Section_Time, nextUserId, nextToken, issued, revoked,
                  raced, failed, app >>

\* lines 106-115 and 136-142: the section-timing insert; the response, when
\* the section is not D
SubmitInsertTime(p) ==
  /\ inflight[p].pc = "insert_time"
  /\ BagCardinality(Student_Section_Time) < MaxSubmits
  /\ Student_Section_Time' =
       Student_Section_Time
         (+) SetToBag({ TimeRow(inflight[p].user_id, inflight[p].section,
                                inflight[p].timeTaken) })
  /\ inflight' = [ inflight EXCEPT ![p] =
                     IF inflight[p].section = "D"
                     THEN [ inflight[p] EXCEPT !.pc = "select_sections" ]
                     ELSE Idle ]
  /\ UNCHANGED << now, Users, Students, Sessions, Test_Completed,
                  Student_Answers, nextUserId, nextToken, issued, revoked,
                  raced, failed, app >>

\* lines 118-123 and 136-142: section D, the lookup of the A, B, C rows
SubmitSelectSections(p) ==
  /\ inflight[p].pc = "select_sections"
  /\ inflight' = [ inflight EXCEPT ![p] =
                     IF {"A", "B", "C"} \subseteq SectionsOf(inflight[p].user_id)
                     THEN [ inflight[p] EXCEPT !.pc = "upsert_completed" ]
                     ELSE Idle ]
  /\ UNCHANGED << now, Users, Students, Sessions, Test_Completed,
                  Student_Answers, Student_Section_Time, nextUserId, nextToken,
                  issued, revoked, raced, failed, app >>

\* lines 124-134: the Test_Completed upsert and the response
SubmitUpsertCompleted(p) ==
  /\ inflight[p].pc = "upsert_completed"
  /\ Test_Completed' = UpsertCompleted(inflight[p].user_id)
  /\ inflight' = [ inflight EXCEPT ![p] = Idle ]
  /\ UNCHANGED << now, Users, Students, Sessions, Student_Answers,
                  Student_Section_Time, nextUserId, nextToken, issued, revoked,
                  raced, failed, app >>

\* lines 145-146: the next row-store call raises (or the process dies before
\* it): the request ends with 400 and what it has written stays
SubmitFails(p) ==
  /\ inflight[p].pc \in { "insert_answers", "insert_time", "select_sections",
                          "upsert_completed" }
  /\ failed' = IF inflight[p].pc = "insert_time"
                THEN failed \cup { [ student_id |-> inflight[p].user_id,
                                     section |-> inflight[p].section ] }
                ELSE failed
  /\ inflight' = [ inflight EXCEPT ![p] = Idle ]
  /\ UNCHANGED << now, Users, Students, Sessions, Test_Completed,
                  Student_Answers, Student_Section_Time, nextUserId, nextToken,
                  issued, revoked, raced, app >>

\* One account, whose client submits under its own user id, served by one
\* worker: a request that ends early needs no second request.
NextSubmits ==
  \/ \E m \in Mobiles, d \in Dobs : Signup("al", m, d)
  \/ \E n \in LoginNames, m \in Mobiles, d \in Dobs : Login(n, m, d)
  \/ \E u \in { x.user_id : x \in Users }, s \in SessionValues, c \in Sections,
        a \in AnswerLists, t \in TimesTaken : SubmitPrepare(1, u, s, c, a, t)
  \/ SubmitInsertAnswers(1)
  \/ SubmitInsertTime(1)
  \/ SubmitSelectSections(1)
  \/ SubmitUpsertCompleted(1)
  \/ SubmitFails(1)

SpecSubmits == Init /\ [][NextSubmits]_vars

\* ===================================================== mlforiot-main
\* The analysis page: model.py's aggregation over the answer file, as
\* app.py's main calls it.  A float64 value is kept as the exact fraction
\* << n, d >> in lowest terms (d > 0); rounding is not modelled.
RECURSIVE Gcd(_, _)
Gcd(a, b) == IF b = 0 THEN a ELSE Gcd(b, a % b)

Abs(x) == IF x < 0 THEN 0 - x ELSE x

Frac(n, d) ==
  LET g == Gcd(Abs(n), d) IN << (IF n < 0 THEN 0 - (Abs(n) \div g) ELSE n \div g), d \div g >>

FracAdd(a, b) == Frac(a[1] * b[2] + b[1] * a[2], a[2] * b[2])
FracSub(a, b) == Frac(a[1] * b[2] - b[1] * a[2], a[2] * b[2])
FracTimes(a, k) == Frac(a[1] * k, a[2])
FracOver(a, k) == Frac(a[1], a[2] * k)
FracLess(a, b) == a[1] * b[2] < b[1] * a[2]

\* ------------------------------------------------------ the answer file
StudentIds == {1, 2}
SectionSeq == << "A", "B", "C", "D" >>

\* the topics of a section that the file's rows carry
FileTopics ==
  [ A |-> << "Number Operations", "Algebra" >>,
    B |-> << "Reading Comprehension", "Vocabulary" >>,
    C |-> << "Pattern Recognition", "Spatial Reasoning" >>,
    D |-> << "Main Idea", "Author's Purpose" >> ]

\* the answers of one student in one section: correctness, in file order.
\* The first two answers of a section are on its first topic, the third on
\* its second.
Patterns ==
  { << >>, << TRUE >>, << FALSE >>, << TRUE, FALSE >>, << FALSE, FALSE, TRUE >> }

\* the first student's answers
Answers ==
  { f \in [ Sections -> Patterns ] : \A c \in {"C", "D"} : Len(f[c]) <= 1 }

\* the second student's answers, when the file has a second student
Profiles ==
  { [ c \in Sections |-> << >> ], [ c \in Sections |-> << TRUE >> ],
    [ c \in Sections |-> IF c \in {"A", "B"} THEN << TRUE >> ELSE << FALSE, TRUE >> ] }

\* pd.read_csv's is_correct column: bool, or object when the file spells
\* the flags 'true' / 'false' in a way read_csv keeps as text
Cell(flag, dtype) ==
  IF dtype = "bool" THEN flag ELSE IF flag THEN "true" ELSE "false"

FileRows(student, section, pattern, dtype) ==
  [ k \in 1..Len(pattern) |->
      [ student_id |-> student, section |-> section,
        is_correct |-> Cell(pattern[k], dtype),
        topic |-> FileTopics[section][IF k <= 2 THEN 1 ELSE 2] ] ]

RECURSIVE StudentRows(_, _, _, _)
StudentRows(student, answers, dtype, i) ==
  IF i > Len(SectionSeq) THEN << >>
  ELSE FileRows(student, SectionSeq[i], answers[SectionSeq[i]], dtype)
         \o StudentRows(student, answers, dtype, i + 1)

\* the files: a first student with any pattern per section, and a second
Files(dtype) ==
  { StudentRows(1, f, dtype, 1) \o StudentRows(2, g, dtype, 1) :
      f \in Answers, g \in Profiles } \ { << >> }

\* data['student_id'].unique()
Unique(data) == { data[k].student_id : k \in 1..Len(data) }

\* app.py 38-65: the file is read and a student selected
LoadData ==
  /\ app.pc = "start"
  /\ \E dtype \in {"bool", "object"}, topic_col \in BOOLEAN :
       \E data \in Files(dtype) : \E student \in Unique(data) :
         app' = [ NoData EXCEPT !.pc = "loaded", !.data = data,
                                !.dtype = dtype, !.topic_col = topic_col,
                                !.selected_student = student ]
  /\ UNCHANGED << now, Users, Students, Sessions, Test_Completed,
                  Student_Answers, Student_Section_Time, nextUserId, nextToken,
                  issued, revoked, inflight, raced, failed >>

\* ------------------------------------------- calculate_student_metrics
\* lines 11-12: .map({'true': True, 'false': False}) on an object column
MapIsCorrect(data, dtype) ==
  IF dtype = "object"
  THEN [ k \in 1..Len(data) |->
           [ data[k] EXCEPT !.is_correct = (data[k].is_correct = "true") ] ]
  ELSE data

SectionRank(c) == CHOOSE i \in 1..Len(SectionSeq) : SectionSeq[i] = c

\* the group key of a row: by = 3 for ['section', topic_col], 2 for
\* ['student_id', 'section'], 1 for 'student_id'
\* the topics in the order groupby sorts them
TopicSeq ==
  << "Algebra", "Author's Purpose", "Main Idea", "Number Operations",
     "Pattern Recognition", "Reading Comprehension", "Spatial Reasoning",
     "Vocabulary" >>

TopicRank(t) == CHOOSE i \in 1..Len(TopicSeq) : TopicSeq[i] = t

KeyOf(row, by) ==
  IF by = 3 THEN << SectionRank(row.section), TopicRank(row.topic) >>
  ELSE IF by = 2 THEN << row.student_id, SectionRank(row.section) >>
  ELSE << row.student_id, 0 >>

KeyLess(a, b) == a[1] < b[1] \/ (a[1] = b[1] /\ a[2] < b[2])

\* groupby sorts the group keys
RECURSIVE SortKeys(_)
SortKeys(keys) ==
  IF keys = {} THEN << >>
  ELSE LET m == CHOOSE x \in keys : \A y \in keys : x = y \/ KeyLess(x, y)
       IN  << m >> \o SortKeys(keys \ {m})

\* Agg gone wrong: the rows are not filtered by the group key
RECURSIVE AggWholeFrame(_, _, _, _)
AggWholeFrame(data, by, key, k) ==
  IF k > Len(data) THEN [ sum |-> 0, count |-> 0 ]
  ELSE LET rest == AggWholeFrame(data, by, key, k + 1)
       IN  [ sum |-> rest.sum + (IF data[k].is_correct THEN 1 ELSE 0),
             count |-> rest.count + 1 ]

\* ['is_correct'].agg(['sum', 'count']) of one group, over the rows from k
RECURSIVE Agg(_, _, _, _)
Agg(data, by, key, k) ==
  IF k > Len(data) THEN [ sum |-> 0, count |-> 0 ]
  ELSE LET rest == Agg(data, by, key, k + 1)
       IN  IF KeyOf(data[k], by) = key
           THEN [ sum |-> rest.sum + (IF data[k].is_correct THEN 1 ELSE 0),
                  count |-> rest.count + 1 ]
           ELSE rest

\* (sum / count) * 100
Percentage(sum, count) == FracTimes(Frac(sum, count), 100)

\* lines 15-16
SectionPerformance(data) ==
  LET keys == SortKeys({ KeyOf(data[k], 2) : k \in 1..Len(data) })
  IN  [ i \in 1..Len(keys) |->
          LET a == Agg(data, 2, keys[i], 1)
          IN  [ student_id |-> keys[i][1], section |-> SectionSeq[keys[i][2]],
                sum |-> a.sum, count |-> a.count,
                score_percentage |-> Percentage(a.sum, a.count) ] ]

\* lines 19-20
OverallPerformance(data) ==
  LET keys == SortKeys({ KeyOf(data[k], 1) : k \in 1..Len(data) })
  IN  [ i \in 1..Len(keys) |->
          LET a == Agg(data, 1, keys[i], 1)
          IN  [ student_id |-> keys[i][1], sum |-> a.sum, count |-> a.count,
                overall_score |-> Percentage(a.sum, a.count) ] ]

calculate_student_metrics(data, dtype) ==
  [ data |-> MapIsCorrect(data, dtype),
    student_section_performance |-> SectionPerformance(MapIsCorrect(data, dtype)),
    student_overall |-> OverallPerformance(MapIsCorrect(data, dtype)) ]

\* app.py 73
CalculateStudentMetrics ==
  /\ app.pc = "loaded"
  /\ LET r == calculate_student_metrics(app.data, app.dtype)
     IN  app' = [ app EXCEPT !.pc = "metrics", !.data = r.data, !.dtype = "bool",
                    !.student_section_performance = r.student_section_performance,
                    !.student_overall = r.student_overall ]
  /\ UNCHANGED << now, Users, Students, Sessions, Test_Completed,
                  Student_Answers, Student_Section_Time, nextUserId, nextToken,
                  issued, revoked, inflight, raced, failed >>

\* --------------------------------------- calculate_average_performance
RECURSIVE SumFrac(_, _)
SumFrac(xs, k) ==
  IF k > Len(xs) THEN << 0, 1 >> ELSE FracAdd(xs[k], SumFrac(xs, k + 1))

\* Mean gone wrong: .sum() instead of .mean()
MeanAsSum(xs) == SumFrac(xs, 1)

\* Series.mean()
Mean(xs) == FracOver(SumFrac(xs, 1), Len(xs))

\* a column of the rows of a frame
RECURSIVE Column(_, _, _)
Column(frame, name, k) ==
  IF k > Len(frame) THEN << >>
  ELSE << IF name = "score_percentage" THEN frame[k].score_percentage
          ELSE frame[k].overall_score >> \o Column(frame, name, k + 1)

\* the rows of a frame whose section is c, in the frame's order
RECURSIVE RowsOfSection(_, _, _)
RowsOfSection(frame, c, k) ==
  IF k > Len(frame) THEN << >>
  ELSE (IF frame[k].section = c THEN << frame[k] >> ELSE << >>)
         \o RowsOfSection(frame, c, k + 1)

\* lines 26-27: groupby('section')['score_percentage'].mean()
AverageSectionPerformance(student_section_performance) ==
  LET keys == SortKeys({ << 0, SectionRank(student_section_performance[k].section) >> :
                           k \in 1..Len(student_section_performance) })
  IN  [ i \in 1..Len(keys) |->
          [ section |-> SectionSeq[keys[i][2]],
            avg_score_percentage |->
              Mean(Column(RowsOfSection(student_section_performance,
                                        SectionSeq[keys[i][2]], 1),
                          "score_percentage", 1)) ] ]

calculate_average_performance(student_section_performance, student_overall) ==
  [ avg_section_performance |-> AverageSectionPerformance(student_section_performance),
    avg_overall_performance |-> Mean(Column(student_overall, "overall_score", 1)) ]

\* app.py 76
CalculateAveragePerformance ==
  /\ app.pc = "metrics"
  /\ LET r == calculate_average_performance(app.student_section_performance,
                                            app.student_overall)
     IN  app' = [ app EXCEPT !.pc = "averages",
                    !.avg_section_performance = r.avg_section_performance,
                    !.avg_overall_performance = r.avg_overall_performance ]
  /\ UNCHANGED << now, Users, Students, Sessions, Test_Completed,
                  Student_Answers, Student_Section_Time, nextUserId, nextToken,
                  issued, revoked, inflight, raced, failed >>

\* -------------------------------------------------- analyze_topic_data
\* the rows of a frame whose student_id is student, in the frame's order
RECURSIVE RowsOfStudent(_, _, _)
RowsOfStudent(frame, student, k) ==
  IF k > Len(frame) THEN << >>
  ELSE (IF frame[k].student_id = student THEN << frame[k] >> ELSE << >>)
         \o RowsOfStudent(frame, student, k + 1)

\* StudentData gone wrong: the filter on student_id is lost
StudentDataUnfiltered(data, student_id) == data

\* line 70: data[data['student_id'] == student_id]
StudentData(data, student_id) == RowsOfStudent(data, student_id, 1)

\* lines 72-104: the frame per (section, topic), empty when the file has
\* no topic column
analyze_topic_data(data, student_id, topic_col) ==
  IF topic_col
  THEN LET student_data == StudentData(data, student_id)
           keys == SortKeys({ KeyOf(student_data[k], 3) : k \in 1..Len(student_data) })
       IN  [ i \in 1..Len(keys) |->
               LET a == Agg(student_data, 3, keys[i], 1)
               IN  [ section |-> SectionSeq[keys[i][1]],
                     topic |-> TopicSeq[keys[i][2]],
                     total_questions |-> a.count, correct_answers |-> a.sum,
                     accuracy |-> Percentage(a.sum, a.count) ] ]
  ELSE << >>

\* "accuracy < 50% marks a topic weak"
IsWeak(accuracy) == FracLess(accuracy, << 50, 1 >>)

\* model.analyze_topic_performance, which app.py imports and model.py does
\* not define: analyze_topic_data's frame with the is_weak column app.py
\* and utils.py read
analyze_topic_performance(data, student_id, topic_col) ==
  LET topic_analysis == analyze_topic_data(data, student_id, topic_col)
  IN  [ i \in 1..Len(topic_analysis) |->
          [ section |-> topic_analysis[i].section,
            topic |-> topic_analysis[i].topic,
            total_questions |-> topic_analysis[i].total_questions,
            correct_answers |-> topic_analysis[i].correct_answers,
            accuracy |-> topic_analysis[i].accuracy,
            is_weak |-> IsWeak(topic_analysis[i].accuracy) ] ]

\* app.py 79
AnalyzeTopicPerformance ==
  /\ app.pc = "averages"
  /\ app' = [ app EXCEPT !.pc = "topics",
                !.topic_performance =
                  analyze_topic_performance(app.data, app.selected_student,
                                            app.topic_col) ]
  /\ UNCHANGED << now, Users, Students, Sessions, Test_Completed,
                  Student_Answers, Student_Section_Time, nextUserId, nextToken,
                  issued, revoked, inflight, raced, failed >>

\* --------------------------------------- identify_strengths_weaknesses
\* avg_section_performance[... == section]['avg_score_percentage'].values[0]
AvgScore(avg_section_performance, section) ==
  RowsOfSection(avg_section_performance, section, 1)[1].avg_score_percentage

\* lines 44-52: comparison_df of one student
Comparison(student_data, avg_section_performance) ==
  [ k \in 1..Len(student_data) |->
      [ section |-> student_data[k].section,
        score |-> student_data[k].score_percentage,
        avg_score |-> AvgScore(avg_section_performance, student_data[k].section),
        diff |-> FracSub(student_data[k].score_percentage,
                         AvgScore(avg_section_performance, student_data[k].section)) ] ]

\* SortValuesDescending gone wrong: ascending=True
SortValuesAscending(comparison) ==
  { [ k \in 1..Len(comparison) |-> comparison[perm[k]] ] :
      perm \in { q \in [ 1..Len(comparison) -> 1..Len(comparison) ] :
                   /\ \A i, j \in 1..Len(comparison) : q[i] = q[j] => i = j
                   /\ \A i, j \in 1..Len(comparison) :
                        i < j => ~ FracLess(comparison[q[j]].diff,
                                            comparison[q[i]].diff) } }

\* sort_values('diff', ascending=False): the default sort is not stable, so
\* any order of the rows with descending diff can come out
SortValuesDescending(comparison) ==
  { [ k \in 1..Len(comparison) |-> comparison[perm[k]] ] :
      perm \in { q \in [ 1..Len(comparison) -> 1..Len(comparison) ] :
                   /\ \A i, j \in 1..Len(comparison) : q[i] = q[j] => i = j
                   /\ \A i, j \in 1..Len(comparison) :
                        i < j => ~ FracLess(comparison[q[i]].diff,
                                            comparison[q[j]].diff) } }

\* DataFrame.head(n)
head(frame, n) == SubSeq(frame, 1, IF Len(frame) < n THEN Len(frame) ELSE n)

\* tail gone wrong: the window is one row too high
tailOffByOne(frame, n) ==
  SubSeq(frame, IF Len(frame) < n + 1 THEN 1 ELSE Len(frame) - n,
         IF Len(frame) < 1 THEN 0 ELSE Len(frame) - 1)

\* DataFrame.tail(n)
tail(frame, n) ==
  SubSeq(frame, IF Len(frame) < n THEN 1 ELSE Len(frame) - n + 1, Len(frame))

SectionsColumn(frame) == [ k \in 1..Len(frame) |-> frame[k].section ]

\* lines 41-64: the entries strengths_weaknesses[student_id] can get
StrengthsWeaknessesOf(student_section_performance, avg_section_performance, student) ==
  LET comparison == Comparison(RowsOfStudent(student_section_performance, student, 1),
                               avg_section_performance)
  IN  { [ strengths |-> SectionsColumn(head(sorted_comparison, 2)),
          weaknesses |-> SectionsColumn(tail(sorted_comparison, 2)),
          comparison |-> comparison ] :
          sorted_comparison \in SortValuesDescending(comparison) }

\* line 40: the dictionaries the loop over the students can build
RECURSIVE StrengthsWeaknesses(_, _, _)
StrengthsWeaknesses(student_section_performance, avg_section_performance, students) ==
  IF students = {} THEN { << >> }
  ELSE LET u == CHOOSE x \in students : TRUE
       IN  { (u :> e) @@ d :
               e \in StrengthsWeaknessesOf(student_section_performance,
                                           avg_section_performance, u),
               d \in StrengthsWeaknesses(student_section_performance,
                                         avg_section_performance, students \ {u}) }

\* the dictionaries identify_strengths_weaknesses can return
identify_strengths_weaknesses(student_section_performance, avg_section_performance) ==
  StrengthsWeaknesses(student_section_performance, avg_section_performance,
                      { student_section_performance[k].student_id :
                          k \in 1..Len(student_section_performance) })

\* app.py 114
IdentifyStrengthsWeaknesses ==
  /\ app.pc = "topics"
  /\ \E d \in identify_strengths_weaknesses(app.student_section_performance,
                                            app.avg_section_performance) :
       app' = [ app EXCEPT !.pc = "strengths", !.strengths_weaknesses = d ]
  /\ UNCHANGED << now, Users, Students, Sessions, Test_Completed,
                  Student_Answers, Student_Section_Time, nextUserId, nextToken,
                  issued, revoked, inflight, raced, failed >>

\* ------------------------------------ generate_section_recommendations
\* A string is kept as the sequence of its words (an apostrophe starts a
\* word of its own), so that a keyword inside a longer name can be told.
NameWords(topic_name) ==
  CASE topic_name = "Number Operations" -> << "Number", "Operations" >>
    [] topic_name = "Algebra" -> << "Algebra" >>
    [] topic_name = "Reading Comprehension" -> << "Reading", "Comprehension" >>
    [] topic_name = "Vocabulary" -> << "Vocabulary" >>
    [] topic_name = "Pattern Recognition" -> << "Pattern", "Recognition" >>
    [] topic_name = "Spatial Reasoning" -> << "Spatial", "Reasoning" >>
    [] topic_name = "Main Idea" -> << "Main", "Idea" >>
    [] topic_name = "Author's Purpose" -> << "Author", "'s", "Purpose" >>

LowerWord(w) ==
  CASE w = "Number" -> "number" [] w = "Operations" -> "operations"
    [] w = "Algebra" -> "algebra" [] w = "Reading" -> "reading"
    [] w = "Comprehension" -> "comprehension" [] w = "Vocabulary" -> "vocabulary"
    [] w = "Pattern" -> "pattern" [] w = "Recognition" -> "recognition"
    [] w = "Spatial" -> "spatial" [] w = "Reasoning" -> "reasoning"
    [] w = "Main" -> "main" [] w = "Idea" -> "idea"
    [] w = "Author" -> "author" [] w = "Purpose" -> "purpose"
    [] OTHER -> w

\* str.lower()
lower(words) == [ k \in 1..Len(words) |-> LowerWord(words[k]) ]

\* lines 149-195: the lists of the if / elif chain of each section, in order
Vocabulary ==
  [ A |-> << { << "algebra" >>, << "algebraic", "expressions" >>, << "equations" >> },
             { << "geometry" >>, << "shapes" >>, << "areas" >>, << "volumes" >> },
             { << "number" >>, << "arithmetic" >>, << "operations" >>, << "fractions" >> },
             { << "data" >>, << "statistics" >>, << "graphs" >>, << "probability" >> } >>,
    B |-> << { << "vocabulary" >>, << "words" >>, << "word", "meaning" >> },
             { << "grammar" >>, << "syntax" >>, << "sentences" >> },
             { << "comprehension" >>, << "reading" >>, << "passages" >> },
             { << "analogies" >>, << "word", "relationships" >>, << "comparisons" >> } >>,
    C |-> << { << "patterns" >>, << "pattern", "recognition" >>, << "sequence" >> },
             { << "spatial" >>, << "rotation" >>, << "3d" >>, << "visualization" >> },
             { << "analogies" >>, << "visual", "analogies" >>, << "figures" >> },
             { << "matrices" >>, << "grid" >>, << "logic" >> } >>,
    D |-> << { << "main", "idea" >>, << "central", "theme" >>, << "summary" >> },
             { << "details" >>, << "supporting", "evidence" >>, << "facts" >> },
             { << "inference" >>, << "implied", "meaning" >>, << "conclusion" >> },
             { << "author" >>, << "purpose" >>, << "tone" >>, << "perspective" >> } >> ]

\* "topic_name.lower() in [...]": which branch of the chain is taken, 0 for
\* the final else
TopicBranch(section, topic_name) ==
  LET name == lower(NameWords(topic_name))
      lists == Vocabulary[section]
  IN  IF name \in lists[1] THEN 1
      ELSE IF name \in lists[2] THEN 2
      ELSE IF name \in lists[3] THEN 3
      ELSE IF name \in lists[4] THEN 4
      ELSE 0

\* lines 121-130: the band of the performance assessment
Assessment(diff) ==
  IF FracLess(<< 15, 1 >>, diff) THEN "Excellent"
  ELSE IF FracLess(<< 5, 1 >>, diff) THEN "Good"
  ELSE IF FracLess(<< -5, 1 >>, diff) THEN "Average"
  ELSE IF FracLess(<< -15, 1 >>, diff) THEN "Below average"
  ELSE "Significant improvement needed"

\* sort_values('accuracy'), ascending or not: any order the keys allow
SortValuesAccuracy(frame, ascending) ==
  { [ k \in 1..Len(frame) |-> frame[perm[k]] ] :
      perm \in { q \in [ 1..Len(frame) -> 1..Len(frame) ] :
                   /\ \A i, j \in 1..Len(frame) : q[i] = q[j] => i = j
                   /\ \A i, j \in 1..Len(frame) :
                        i < j => IF ascending
                                 THEN ~ FracLess(frame[q[j]].accuracy, frame[q[i]].accuracy)
                                 ELSE ~ FracLess(frame[q[i]].accuracy, frame[q[j]].accuracy) } }

\* lines 143-195: one recommendation per weakest topic
TopicRecommendations(section, weakest_topics) ==
  [ k \in 1..Len(weakest_topics) |->
      << "topic", section, TopicBranch(section, weakest_topics[k].topic),
         weakest_topics[k].topic >> ]

\* lines 198-206
StrengthRecognized(strongest_topic) ==
  IF FracLess(<< 75, 1 >>, strongest_topic.accuracy)
  THEN << << "strength", strongest_topic.topic >> >>
  ELSE << >>

\* lines 209-235
GeneralRecommendations(section, score) ==
  IF FracLess(score, << 50, 1 >>)
  THEN << << "plan", section >>, << "resources", section >> >>
  ELSE << << "advanced", section >> >>

\* the lists generate_section_recommendations can return
generate_section_recommendations(section, score, avg_score, topic_analysis) ==
  LET assessment == << << "assessment", section, Assessment(FracSub(score, avg_score)) >> >>
      section_topics == RowsOfSection(topic_analysis, section, 1)
  IN  IF section_topics = << >>
      THEN { assessment \o GeneralRecommendations(section, score) }
      ELSE { assessment
               \o TopicRecommendations(section, head(weakest, 2))
               \o StrengthRecognized(strongest[1])
               \o GeneralRecommendations(section, score) :
               weakest \in SortValuesAccuracy(section_topics, TRUE),
               strongest \in SortValuesAccuracy(section_topics, FALSE) }

\* lines 251-260: the dictionaries the loop over the student's rows can build
RECURSIVE SectionRecommendations(_, _, _, _)
SectionRecommendations(student_data, avg_section_performance, topic_analysis, k) ==
  IF k > Len(student_data) THEN { << >> }
  ELSE { (student_data[k].section :> r) @@ d :
           r \in generate_section_recommendations(
                   student_data[k].section, student_data[k].score_percentage,
                   AvgScore(avg_section_performance, student_data[k].section),
                   topic_analysis),
           d \in SectionRecommendations(student_data, avg_section_performance,
                                        topic_analysis, k + 1) }

generate_specific_recommendations(data, student_id, student_section_performance, avg_section_performance, topic_col) ==
  SectionRecommendations(RowsOfStudent(student_section_performance, student_id, 1),
                         avg_section_performance,
                         analyze_topic_data(data, student_id, topic_col), 1)

\* app.py 236-239
GenerateSpecificRecommendations ==
  /\ app.pc = "strengths"
  /\ \E d \in generate_specific_recommendations(
                app.data, app.selected_student, app.student_section_performance,
                app.avg_section_performance, app.topic_col) :
       app' = [ app EXCEPT !.pc = "recommendations",
                           !.specific_recommendations = d ]
  /\ UNCHANGED << now, Users, Students, Sessions, Test_Completed,
                  Student_Answers, Student_Section_Time, nextUserId, nextToken,
                  issued, revoked, inflight, raced, failed >>

NextApp ==
  \/ LoadData
  \/ CalculateStudentMetrics
  \/ CalculateAveragePerformance
  \/ AnalyzeTopicPerformance
  \/ IdentifyStrengthsWeaknesses
  \/ GenerateSpecificRecommendations

SpecApp == Init /\ [][NextApp]_vars

\* ==================================================================== claims
LoginInputs == LoginNames \X Mobiles \X Dobs

\* the outcomes login can have in this state, over all its inputs
LoginOutcomes == UNION { login(x[1], x[2], x[3]) : x \in LoginInputs }

\* the user has a Sessions row whose expires_at is after the current time
HasUnexpired(user_id) ==
  \E r \in Sessions : r.user_id = user_id /\ now < r.expires_at

\* C1: verify_session(session_value, user_id) returns true if and only if a
\* Sessions row of user_id exists whose session_id equals the presented value
\* and whose expires_at is strictly after the current time.
C1_VerifySessionIff ==
  \A v \in AllSessionValues, u \in UserIds :
    \A result \in verify_session(v, u) :
      result = ( \E r \in Sessions : /\ r.user_id = u
                                     /\ r.session_id = v
                                     /\ now < r.expires_at )

\* C2: a login performed while the user has an unexpired Sessions row returns
\* the session_id and token of such a row, the same that the login which
\* created the row returned.
C2_ReloginSameSession ==
  \A o \in LoginOutcomes :
    (o.status = 200 /\ HasUnexpired(o.user_id)) =>
      /\ \E r \in Sessions : /\ r.user_id = o.user_id
                             /\ now < r.expires_at
                             /\ r.session_id = o.session_id
                             /\ r.token = o.token
      /\ \E i \in issued : /\ i.user_id = o.user_id
                           /\ i.session_id = o.session_id
                           /\ i.token = o.token

C2_Witness ==
  \E o \in LoginOutcomes :
    /\ o.message = "Already logged in"
    /\ \E i \in issued : i.session_id = o.session_id

\* C3: a login performed while the user has an unexpired Sessions row leaves
\* the Sessions table as it was.
C3_ReloginKeepsSessions ==
  \A o \in LoginOutcomes :
    (o.status = 200 /\ HasUnexpired(o.user_id)) => o.Sessions = Sessions

C3_Witness ==
  /\ Cardinality(Sessions) = 2
  /\ \E o \in LoginOutcomes :
       o.message = "Already logged in" /\ o.Sessions = Sessions

\* C4: a session value whose logout has succeeded is reported invalid ever
\* after by POST /session, by verify_session and by GET /protected, for
\* every user and token, also after the user has logged in again.
C4_RevokedStaysInvalid ==
  \A v \in revoked :
    /\ ~validate_session(v).valid
    /\ \A u \in UserIds :
         /\ verify_session(v, u) = {FALSE}
         /\ \A t \in Tokens : \A a \in protected_route(t, v, u) : a.status = 401

C4_Witness ==
  \E v \in revoked : \E i \in issued :
    /\ i.session_id = v
    /\ \E r \in Sessions : r.user_id = i.user_id /\ now < r.expires_at

\* C5: for a session value whose Sessions row has expires_at at or before
\* the current time, POST /session never reports valid and POST /submit
\* never accepts answers.
C5_ExpiredNeverValid ==
  \A r \in Sessions :
    r.expires_at <= now =>
      /\ ~validate_session(r.session_id).valid
      /\ \A u \in UserIds, c \in Sections, a \in AnswerLists, t \in TimesTaken :
           submit_answers(u, r.session_id, c, a, t).status # 200

\* C6: a student has a Student_Section_Time row for a section only if the
\* student has rows for every earlier section of A, B, C, D.
Earlier(section) ==
  IF section = "B" THEN {"A"} ELSE IF section = "C" THEN {"A", "B"}
  ELSE IF section = "D" THEN {"A", "B", "C"} ELSE {}

C6_SectionsInOrder ==
  \A u \in UserIds : \A c \in SectionsOf(u) : Earlier(c) \subseteq SectionsOf(u)

\* C7: a signup whose (name, mobile, date_of_birth) equals that of a Users
\* row is answered 400 and inserts no row into Users or Students.
C7_DuplicateSignupRejected ==
  \A n \in Names, m \in Mobiles, d \in Dobs :
    (\E u \in Users : u.name = n /\ u.mobile = m /\ u.date_of_birth = d) =>
      /\ signup(n, m, d).status = 400
      /\ signup(n, m, d).Users = Users
      /\ signup(n, m, d).Students = Students

C7_Witness ==
  /\ Students # {}
  /\ \E n \in Names, m \in Mobiles, d \in Dobs : signup(n, m, d).status = 400

\* C8 (as claimed): no two Users rows carry the same (name, mobile,
\* date_of_birth), also when the row-store calls of signups interleave.
C8_NoDuplicateTriples ==
  \A u1, u2 \in Users : Triple(u1) = Triple(u2) => u1 = u2

\* C8 (amended): two Users rows carry the same triple only if two signups
\* for that triple both ran the duplicate check before either inserted.
C8_DuplicatesOnlyByRace ==
  \A u1, u2 \in Users :
    (u1 # u2 /\ Triple(u1) = Triple(u2)) => Triple(u1) \in raced

C8_Witness ==
  \E u1, u2 \in Users :
    u1 # u2 /\ Triple(u1) = Triple(u2) /\ Triple(u1) \in raced

\* C9: logout deletes exactly the Sessions rows whose session_id is the
\* presented value and answers 200 when there was one; when there is none
\* it answers 404 and leaves the table as it was.
C9_LogoutDeletesExactly ==
  \A v \in AllSessionValues :
    /\ logout(v).Sessions = { r \in Sessions : r.session_id # v }
    /\ (logout(v).status = 200) = (\E r \in Sessions : r.session_id = v)
    /\ (~ \E r \in Sessions : r.session_id = v) =>
         (logout(v).status = 404 /\ logout(v).Sessions = Sessions)

C9_Witness ==
  /\ revoked # {}
  /\ \E v \in SessionValues : logout(v).status = 200
  /\ \E v \in SessionValues : logout(v).status = 404

\* C10: a login that creates a session returns the session_id and the token
\* of the Sessions row it inserted: the stored hash, not the raw token, so
\* that the returned value compares equal to the stored one.
C10_LoginReturnsStored ==
  \A o \in LoginOutcomes :
    o.message = "Login successful" =>
      /\ o.session_id[1] = "hash"
      /\ \E r \in o.Sessions \ Sessions :
           /\ o.Sessions = Sessions \cup {r}
           /\ r.user_id = o.user_id
           /\ r.session_id = o.session_id
           /\ r.token = o.token
           /\ VerifySessionRow(r, o.session_id, o.now)

C10_Witness ==
  \E i \in issued : \E r \in Sessions :
    /\ r.user_id = i.user_id
    /\ r.session_id = i.session_id
    /\ r.token = i.token

\* C11: every Sessions row inserted by login has expires_at = created_at + 7
\* days, and the exp of the signed token stored in the row equals the row's
\* expires_at.
C11_SevenDayLifetime ==
  \A r \in Sessions :
    /\ r.expires_at = r.created_at + 7
    /\ r.token[3] = r.expires_at

\* C12 (as claimed): each user has at most one Sessions row whose expires_at
\* is after the current time, also when the row-store calls of logins and
\* logouts interleave.
C12_OneActivePerUser ==
  \A r1, r2 \in Sessions :
    (r1.user_id = r2.user_id /\ now < r1.expires_at /\ now < r2.expires_at)
      => r1 = r2

\* C12 (amended): a user has two unexpired Sessions rows only if two logins
\* of that user both ran the active-session lookup before either inserted.
C12_TwoActiveOnlyByRace ==
  \A r1, r2 \in Sessions :
    (r1 # r2 /\ r1.user_id = r2.user_id
       /\ now < r1.expires_at /\ now < r2.expires_at)
      => << "login", r1.user_id >> \in raced

C12_Witness ==
  \E r1, r2 \in Sessions :
    /\ r1 # r2 /\ r1.user_id = r2.user_id
    /\ now < r1.expires_at /\ now < r2.expires_at
    /\ << "login", r1.user_id >> \in raced

\* C13: verify_jwt returns the embedded user id for a token that is signed
\* with the key and unexpired, and for the other tokens a failure value that
\* tells a bad signature from an expired token: the two failures differ.
C13_VerifyJwtTellsFailure ==
  /\ \A t \in Tokens :
       (t[4] = "signed" /\ now < t[3]) => verify_jwt(t, now) = t[2]
  /\ \A expired, invalid \in Tokens :
       (expired[4] = "signed" /\ expired[3] <= now /\ invalid[4] # "signed")
         => verify_jwt(expired, now) # verify_jwt(invalid, now)

\* what a client sends to POST /submit
SubmitInputs == UserIds \X SessionValues \X Sections \X AnswerLists \X TimesTaken

\* sections of the student's rows in a Student_Section_Time table
SectionsIn(times, student) ==
  { r.section : r \in { x \in BagToSet(times) : x.student_id = student } }

IsCompleted(table, student) ==
  \E r \in table : r.student_id = student /\ r.completed

\* C14 (as claimed): after a successful submit that leaves rows for A, B and
\* C all present for the student, Test_Completed has completed = true for the
\* student; and submit never sets it true while a row of A, B, C is missing.
C14_CompletedOnceABC ==
  \A x \in SubmitInputs :
    LET o == submit_answers(x[1], x[2], x[3], x[4], x[5])
    IN  /\ (o.status = 200
              /\ {"A", "B", "C"} \subseteq SectionsIn(o.Student_Section_Time, x[1]))
             => IsCompleted(o.Test_Completed, x[1])
        /\ (o.Test_Completed # Test_Completed)
             => {"A", "B", "C"} \subseteq SectionsIn(o.Student_Section_Time, x[1])

\* C14 (amended): the completion status is upserted to true by a successful
\* submit of section D that leaves rows for A, B and C present, and only by
\* such a submit: a submit of A, B or C, a submit of D with a row of A, B, C
\* missing, and a rejected submit leave Test_Completed as it was.
C14_CompletedByDAfterABC ==
  \A x \in SubmitInputs :
    LET o == submit_answers(x[1], x[2], x[3], x[4], x[5])
        abc == {"A", "B", "C"} \subseteq SectionsIn(o.Student_Section_Time, x[1])
    IN  IF o.status = 200 /\ x[3] = "D" /\ abc
        THEN /\ IsCompleted(o.Test_Completed, x[1])
             /\ { r \in o.Test_Completed : r.student_id # x[1] }
                  = { r \in Test_Completed : r.student_id # x[1] }
        ELSE o.Test_Completed = Test_Completed

C14_Witness ==
  \E u \in UserIds :
    /\ IsCompleted(Test_Completed, u)
    /\ {"A", "B", "C", "D"} \subseteq SectionsOf(u)

\* C15: the submit flow is not atomic.  Student_Answers rows of a (student,
\* section) are in the table without a Student_Section_Time row of that
\* (student, section) exactly in the way the claim names: a submit for it is
\* between its answers insert and its section-timing insert, or one ended
\* there; and such a state is reachable (C15_Witness).
C15_PartialOnlyBetweenInserts ==
  \A a \in BagToSet(Student_Answers) :
    (~ \E r \in BagToSet(Student_Section_Time) :
          r.student_id = a.student_id /\ r.section = a.section)
      => \/ \E p \in Procs : /\ inflight[p].pc = "insert_time"
                             /\ inflight[p].user_id = a.student_id
                             /\ inflight[p].section = a.section
         \/ \E f \in failed : /\ f.student_id = a.student_id
                              /\ f.section = a.section

C15_Witness ==
  /\ \A p \in Procs : inflight[p].pc = "idle"
  /\ \E a \in BagToSet(Student_Answers) :
       /\ ~ \E r \in BagToSet(Student_Section_Time) :
              r.student_id = a.student_id /\ r.section = a.section
       /\ \E f \in failed : /\ f.student_id = a.student_id
                            /\ f.section = a.section

\* the answer rows of a student (of one section, or of all when section = "")
RowsOf(data, student, section) ==
  { k \in 1..Len(data) : /\ data[k].student_id = student
                         /\ (section = "" \/ data[k].section = section) }

CorrectOf(data, student, section) ==
  { k \in RowsOf(data, student, section) : data[k].is_correct }

InPercentRange(x) == ~ FracLess(x, << 0, 1 >>) /\ ~ FracLess(<< 100, 1 >>, x)

\* C16: calculate_student_metrics gives each (student, section) that has
\* rows, and each student, one row whose score is 100 * correct / total over
\* the rows of the group, a value in [0, 100]; one correct and one incorrect
\* answer in section A give 50.
C16_ScoreIsPercentCorrect ==
  /\ app.pc \notin {"start", "loaded"} =>
       /\ \A u \in StudentIds, c \in Sections :
            LET rows == { i \in 1..Len(app.student_section_performance) :
                            /\ app.student_section_performance[i].student_id = u
                            /\ app.student_section_performance[i].section = c }
            IN  IF RowsOf(app.data, u, c) = {} THEN rows = {}
                ELSE /\ Cardinality(rows) = 1
                     /\ \A i \in rows :
                          LET x == app.student_section_performance[i].score_percentage
                          IN  /\ x[1] * Cardinality(RowsOf(app.data, u, c))
                                   = 100 * Cardinality(CorrectOf(app.data, u, c)) * x[2]
                              /\ InPercentRange(x)
       /\ \A u \in StudentIds :
            LET rows == { i \in 1..Len(app.student_overall) :
                            app.student_overall[i].student_id = u }
            IN  IF RowsOf(app.data, u, "") = {} THEN rows = {}
                ELSE /\ Cardinality(rows) = 1
                     /\ \A i \in rows :
                          LET x == app.student_overall[i].overall_score
                          IN  /\ x[1] * Cardinality(RowsOf(app.data, u, ""))
                                   = 100 * Cardinality(CorrectOf(app.data, u, "")) * x[2]
                              /\ InPercentRange(x)
  /\ SectionPerformance(FileRows(1, "A", << TRUE, FALSE >>, "bool"))[1].score_percentage
       = << 50, 1 >>

C16_Witness ==
  /\ app.pc = "metrics"
  /\ Unique(app.data) = {1, 2}
  /\ \E i \in 1..Len(app.student_section_performance) :
       /\ app.student_section_performance[i].count = 3
       /\ app.student_section_performance[i].score_percentage = << 100, 3 >>
  /\ \E i \in 1..Len(app.student_overall) :
       app.student_overall[i].overall_score = << 50, 1 >>

\* 100 * correct / total of a student's rows (of one section, or all)
ScoreOf(data, student, section) ==
  Frac(100 * Cardinality(CorrectOf(data, student, section)),
       Cardinality(RowsOf(data, student, section)))

\* the sum of the scores of a set of students
RECURSIVE SumOfScores(_, _, _)
SumOfScores(data, students, section) ==
  IF students = {} THEN << 0, 1 >>
  ELSE LET u == CHOOSE x \in students : TRUE
       IN  FracAdd(ScoreOf(data, u, section),
                   SumOfScores(data, students \ {u}, section))

\* 100 * correct / total over all the rows of the file
PooledScore(data) ==
  Frac(100 * Cardinality({ k \in 1..Len(data) : data[k].is_correct }), Len(data))

\* C18: calculate_average_performance gives each section the arithmetic mean
\* of the scores of the students that have the section, and as overall
\* average the mean of the students' overall scores, each student counting
\* once; section-A scores 50 and 100 give 75.
C18_AveragesAreUnweightedMeans ==
  /\ app.pc \notin {"start", "loaded", "metrics"} =>
       /\ \A c \in Sections :
            LET having == { u \in StudentIds : RowsOf(app.data, u, c) # {} }
                rows == { i \in 1..Len(app.avg_section_performance) :
                            app.avg_section_performance[i].section = c }
            IN  IF having = {} THEN rows = {}
                ELSE /\ Cardinality(rows) = 1
                     /\ \A i \in rows :
                          app.avg_section_performance[i].avg_score_percentage
                            = FracOver(SumOfScores(app.data, having, c),
                                       Cardinality(having))
       /\ app.avg_overall_performance
            = FracOver(SumOfScores(app.data, Unique(app.data), ""),
                       Cardinality(Unique(app.data)))
  /\ LET data == FileRows(1, "A", << TRUE, FALSE >>, "bool")
                   \o FileRows(2, "A", << TRUE >>, "bool")
         r == calculate_average_performance(SectionPerformance(data),
                                            OverallPerformance(data))
     IN  r.avg_section_performance[1].avg_score_percentage = << 75, 1 >>

C18_Witness ==
  /\ app.pc = "averages"
  /\ Unique(app.data) = {1, 2}
  /\ app.avg_overall_performance # PooledScore(app.data)
  /\ \E i \in 1..Len(app.avg_section_performance) :
       app.avg_section_performance[i].avg_score_percentage = << 75, 1 >>

Range(xs) == { xs[k] : k \in 1..Len(xs) }

\* the sections the student has a score in
ScoredSections(student) ==
  { app.student_section_performance[k].section :
      k \in { i \in 1..Len(app.student_section_performance) :
                app.student_section_performance[i].student_id = student } }

\* C17: for a student with scores in exactly 4 sections,
\* identify_strengths_weaknesses yields 2 strengths and 2 weaknesses that
\* are disjoint and together are the 4 sections, whatever the scores, ties
\* included.
C17_TwoStrengthsTwoWeaknesses ==
  app.pc = "strengths" =>
    \A u \in DOMAIN app.strengths_weaknesses :
      Cardinality(ScoredSections(u)) = 4 =>
        LET e == app.strengths_weaknesses[u]
        IN  /\ Len(e.strengths) = 2 /\ Cardinality(Range(e.strengths)) = 2
            /\ Len(e.weaknesses) = 2 /\ Cardinality(Range(e.weaknesses)) = 2
            /\ Range(e.strengths) \cap Range(e.weaknesses) = {}
            /\ Range(e.strengths) \cup Range(e.weaknesses) = Sections

\* a student with four sections, two of them tied on both sides of the cut
C17_Witness ==
  /\ app.pc = "strengths"
  /\ \E u \in DOMAIN app.strengths_weaknesses :
       LET e == app.strengths_weaknesses[u]
       IN  /\ Cardinality(ScoredSections(u)) = 4
           /\ e.strengths = << "D", "B" >>
           /\ \E i, j \in 1..4 :
                /\ e.comparison[i].section = "B"
                /\ e.comparison[j].section = "A"
                /\ e.comparison[i].diff = e.comparison[j].diff
                /\ "A" \in Range(e.weaknesses)

\* the selected student's rows of a section and topic
TopicRows(c, t) ==
  { k \in 1..Len(app.data) : /\ app.data[k].student_id = app.selected_student
                             /\ app.data[k].section = c
                             /\ app.data[k].topic = t }

\* C19: the topic-level aggregation of a student has, per (section, topic)
\* of the student's rows, one row with the number of questions, the number
\* of correct answers and accuracy = 100 * correct / total, and is_weak
\* exactly when the accuracy is below 50; without a topic column it is empty.
C19_TopicAccuracyAndWeak ==
  app.pc \in {"topics", "strengths", "recommendations"} =>
    IF app.topic_col
    THEN \A c \in Sections, t \in Range(TopicSeq) :
           LET rows == { i \in 1..Len(app.topic_performance) :
                           /\ app.topic_performance[i].section = c
                           /\ app.topic_performance[i].topic = t }
               total == Cardinality(TopicRows(c, t))
               correct == Cardinality({ k \in TopicRows(c, t) : app.data[k].is_correct })
           IN  IF total = 0 THEN rows = {}
               ELSE /\ Cardinality(rows) = 1
                    /\ \A i \in rows :
                         LET r == app.topic_performance[i]
                         IN  /\ r.total_questions = total
                             /\ r.correct_answers = correct
                             /\ r.accuracy[1] * total = 100 * correct * r.accuracy[2]
                             /\ r.is_weak = (100 * correct < 50 * total)
    ELSE app.topic_performance = << >>

C19_Witness ==
  /\ app.pc = "topics"
  /\ Unique(app.data) = {1, 2}
  /\ \E i, j, l \in 1..Len(app.topic_performance) :
       /\ app.topic_performance[i].total_questions = 2
       /\ app.topic_performance[i].accuracy = << 50, 1 >>
       /\ ~ app.topic_performance[i].is_weak
       /\ app.topic_performance[j].total_questions = 2
       /\ app.topic_performance[j].accuracy = << 0, 1 >>
       /\ app.topic_performance[j].is_weak
       /\ app.topic_performance[l].section = app.topic_performance[j].section
       /\ app.topic_performance[l].topic # app.topic_performance[j].topic

\* the keyword occurs in the name: its words are consecutive words of it
Contains(name, keyword) ==
  \E i \in 1..Len(name) :
    /\ i + Len(keyword) - 1 <= Len(name)
    /\ SubSeq(name, i, i + Len(keyword) - 1) = keyword

\* the first list of the section's vocabulary with a keyword that occurs in
\* the lower-cased topic name, 0 when there is none
KeywordBranch(section, topic_name) ==
  LET hits == { i \in 1..4 : \E keyword \in Vocabulary[section][i] :
                  Contains(lower(NameWords(topic_name)), keyword) }
  IN  IF hits = {} THEN 0 ELSE CHOOSE i \in hits : \A j \in hits : i <= j

\* C20: the rule-based generator picks the topic recommendation by
\* case-insensitive keyword matching of the topic name against the
\* vocabulary of its section: a topic name that contains a keyword gets that
\* keyword's recommendation, not the section's generic one.
C20_KeywordMatching ==
  app.pc = "recommendations" =>
    \A c \in DOMAIN app.specific_recommendations :
      \A k \in 1..Len(app.specific_recommendations[c]) :
        LET r == app.specific_recommendations[c][k]
        IN  r[1] = "topic" => r[3] = KeywordBranch(c, r[4])

\* the class average of a section: the mean of the scores of the students
\* that have rows in it
ClassAverage(data, section) ==
  LET having == { u \in StudentIds : RowsOf(data, u, section) # {} }
  IN  FracOver(SumOfScores(data, having, section), Cardinality(having))

\* C21: identify_strengths_weaknesses ranks a student's sections by score
\* minus class average of the section, descending, the first two being the
\* strengths and the last two the weaknesses: a strength's difference is at
\* least that of every section that is not a strength, and a weakness's
\* difference at most that of every section that is not a weakness.
C21_RankedByDifference ==
  app.pc \in {"strengths", "recommendations"} =>
    \A u \in DOMAIN app.strengths_weaknesses :
      LET e == app.strengths_weaknesses[u]
          rows == 1..Len(e.comparison)
      IN  /\ { e.comparison[i].section : i \in rows } = ScoredSections(u)
          /\ \A i \in rows :
               e.comparison[i].diff
                 = FracSub(ScoreOf(app.data, u, e.comparison[i].section),
                           ClassAverage(app.data, e.comparison[i].section))
          /\ Range(e.strengths) \subseteq ScoredSections(u)
          /\ Range(e.weaknesses) \subseteq ScoredSections(u)
          /\ Len(e.strengths) = (IF Len(e.comparison) < 2 THEN Len(e.comparison) ELSE 2)
          /\ Len(e.weaknesses) = Len(e.strengths)
          /\ \A i, j \in rows :
               /\ (e.comparison[i].section \in Range(e.strengths)
                     /\ e.comparison[j].section \notin Range(e.strengths))
                    => ~ FracLess(e.comparison[i].diff, e.comparison[j].diff)
               /\ (e.comparison[i].section \in Range(e.weaknesses)
                     /\ e.comparison[j].section \notin Range(e.weaknesses))
                    => ~ FracLess(e.comparison[j].diff, e.comparison[i].diff)

\* a student with four sections whose two strengths are not the first two
\* sections and lie strictly above the two weaknesses
C21_Witness ==
  /\ app.pc = "strengths"
  /\ \E u \in DOMAIN app.strengths_weaknesses :
       LET e == app.strengths_weaknesses[u]
       IN  /\ Cardinality(ScoredSections(u)) = 4
           /\ Range(e.strengths) = {"B", "D"}
           /\ \A i, j \in 1..4 :
                (e.comparison[i].section \in {"B", "D"}
                   /\ e.comparison[j].section \in {"A", "C"})
                  => FracLess(e.comparison[j].diff, e.comparison[i].diff)

\* the first section, in the order A, B, C, D, that is not in a set of sections
FirstMissing(sections) ==
  IF "A" \notin sections THEN "A" ELSE IF "B" \notin sections THEN "B"
  ELSE IF "C" \notin sections THEN "C" ELSE IF "D" \notin sections THEN "D"
  ELSE "none"

\* C22: for a user whose test is not completed, login returns as
\* current_section the first section in the order A, B, C, D for which the
\* user has no Student_Section_Time row (A when there are no rows); for a
\* user whose test is completed the response carries no current_section.
C22_CurrentSectionFirstMissing ==
  \A o \in LoginOutcomes :
    o.status = 200 =>
      IF o.test_completed THEN o.current_section = "none"
      ELSE o.current_section = FirstMissing(SectionsOf(o.user_id))

\* the positions of the submitted answers whose question is in Questions
KnownAnswers(answers) ==
  { k \in 1..Len(answers) : \E q \in Questions : q.question_id = answers[k].qNumber }

\* the answer is the correct_answer of its question
IsRight(a) ==
  \E q \in Questions : q.question_id = a.qNumber /\ q.correct_answer = a.answer

\* the number of positions of known that are below or at k
RankIn(known, k) == Cardinality({ i \in known : i <= k })

\* C23: a successful submit adds to Student_Answers, in one insert, exactly
\* one row for each submitted answer whose question id is in Questions, with
\* is_correct true exactly when the selected answer is the question's
\* correct_answer; answers for unknown questions are skipped; the results
\* list has one entry per written row, with the same is_correct; and exactly
\* one Student_Section_Time row is added, for the (student, section).
C23_SubmitWritesRows ==
  \A x \in SubmitInputs :
    LET o == submit_answers(x[1], x[2], x[3], x[4], x[5])
        answers == x[4]
        known == KnownAnswers(answers)
        written(k) == [ answer_id |-> answers[k].qNumber, student_id |-> x[1],
                        section |-> x[3], question_id |-> answers[k].qNumber,
                        selected_answer |-> answers[k].answer,
                        is_correct |-> IsRight(answers[k]) ]
        time_row == [ student_id |-> x[1], section |-> x[3],
                      time_spent_seconds |-> x[5] ]
    IN  o.status = 200 =>
          /\ known # {}
          /\ \A r \in BagToSet(o.Student_Answers) \cup { written(k) : k \in known } :
               CopiesIn(r, o.Student_Answers)
                 = CopiesIn(r, Student_Answers)
                     + Cardinality({ k \in known : written(k) = r })
          /\ o.inserted_count = Cardinality(known)
          /\ Len(o.results) = Cardinality(known)
          /\ \A k \in known :
               o.results[RankIn(known, k)]
                 = [ qNumber |-> answers[k].qNumber,
                     is_correct |-> written(k).is_correct ]
          /\ \A r \in BagToSet(o.Student_Section_Time) \cup { time_row } :
               CopiesIn(r, o.Student_Section_Time)
                 = CopiesIn(r, Student_Section_Time) + (IF r = time_row THEN 1 ELSE 0)

\* a submit of a right answer, a wrong answer and an answer to an unknown
\* question has been stored, and the same submit would be accepted again
C23_Witness ==
  \E x \in SubmitInputs :
    /\ submit_answers(x[1], x[2], x[3], x[4], x[5]).status = 200
    /\ Len(x[4]) = 3 /\ Cardinality(KnownAnswers(x[4])) = 2
    /\ \E r1, r2 \in BagToSet(Student_Answers) :
         /\ r1.student_id = x[1] /\ r1.section = x[3] /\ r1.is_correct
         /\ r2.student_id = x[1] /\ r2.section = x[3] /\ ~ r2.is_correct
    /\ ~ \E r \in BagToSet(Student_Answers) : r.question_id = 9
    /\ BagCardinality(Student_Section_Time) = 1

\* the steps of a submit before which a raising row-store call is answered
\* 400 by "except Exception" (lines 145-146)
FailurePoints == { "insert_answers", "insert_time", "select_sections", "upsert_completed" }

\* C24: every request that is answered with an HTTP 4xx error (duplicate
\* signup, login with invalid credentials, submit with a missing session or
\* unknown questions or a failed row-store call, logout of an unknown
\* session; GET /protected writes nothing) leaves all tables exactly as they
\* were before the request.
C24_ErrorsLeaveTables ==
  /\ \A n \in Names, m \in Mobiles, d \in Dobs :
       signup(n, m, d).status = 400 =>
         signup(n, m, d).Users = Users /\ signup(n, m, d).Students = Students
  /\ \A o \in LoginOutcomes :
       o.status = 401 => o.Sessions = Sessions /\ o.Test_Completed = Test_Completed
  /\ \A v \in SessionValues : logout(v).status = 404 => logout(v).Sessions = Sessions
  /\ \A x \in SubmitInputs :
       LET o == submit_answers(x[1], x[2], x[3], x[4], x[5])
       IN  o.status \in {400, 404} =>
             /\ o.Student_Answers = Student_Answers
             /\ o.Student_Section_Time = Student_Section_Time
             /\ o.Test_Completed = Test_Completed
  /\ \A p \in Procs :
       inflight[p].pc \in FailurePoints =>
         /\ Student_Answers = inflight[p].answers_before
         /\ Student_Section_Time = inflight[p].times_before

\* C25: GET /protected(token, session_id, user_id) answers "You are
\* authenticated" only when the signed token is valid, the user id embedded
\* in it equals user_id, and session_id is a valid session of that user_id:
\* a valid token of one user with the session_id and user_id of another
\* user is rejected.
C25_TokenBoundToUser ==
  \A t \in Tokens, v \in SessionValues, u \in UserIds :
    \A a \in protected_route(t, v, u) :
      a.status = 200 =>
        /\ verify_jwt(t, now) # 0
        /\ verify_jwt(t, now) = u
        /\ TRUE \in verify_session(v, u)

\* C26: after any sequence of logins, logouts and session expiries, GET
\* /protected called with the token, session_id and user_id a login returned
\* succeeds for as long as that session is unexpired and not logged out (and
\* the token itself still verifies), also when the Sessions table still
\* holds older expired rows of the same user.
C26_IssuedSessionAccepted ==
  \A i \in issued :
    ( /\ \E r \in Sessions : /\ r.user_id = i.user_id
                              /\ r.session_id = i.session_id
                              /\ now < r.expires_at
      /\ i.session_id \notin revoked
      /\ verify_jwt(i.token, now) = i.user_id )
      => \A a \in protected_route(i.token, i.session_id, i.user_id) : a.status = 200

\* C27: submit writes Student_Answers, Student_Section_Time and
\* Test_Completed rows for student userId only when the presented sessionId
\* is a Sessions row owned by that same userId: the session of one user
\* cannot be used to record answers or completion for another user.
C27_SubmitOnlyForOwner ==
  \A x \in SubmitInputs :
    LET o == submit_answers(x[1], x[2], x[3], x[4], x[5])
    IN  ( \/ o.Student_Answers # Student_Answers
          \/ o.Student_Section_Time # Student_Section_Time
          \/ o.Test_Completed # Test_Completed )
          => \E r \in Sessions : r.session_id = x[2] /\ r.user_id = x[1]

\* C28: in every state reached by successful submits in any order, a
\* student who has Student_Section_Time rows for all four sections A, B, C
\* and D has Test_Completed.completed = true, and a login of that student
\* reports test_completed true.
C28_AllFourMeansCompleted ==
  \A u \in UserIds :
    {"A", "B", "C", "D"} \subseteq SectionsOf(u) =>
      /\ IsCompleted(Test_Completed, u)
      /\ \A o \in LoginOutcomes :
           (o.status = 200 /\ o.user_id = u) => o.test_completed

\* the student is marked completed in the table and by no row not completed
StillCompleted(table, student) ==
  /\ IsCompleted(table, student)
  /\ ~ \E r \in table : r.student_id = student /\ ~ r.completed

\* C29: Test_Completed.completed is justified and monotone: it is true for
\* a student only if the student has Student_Section_Time rows for A, B, C
\* and D, and once it is true no login and no submit sets it back to false.
C29_CompletedJustifiedMonotone ==
  \A u \in UserIds :
    IsCompleted(Test_Completed, u) =>
      /\ {"A", "B", "C", "D"} \subseteq SectionsOf(u)
      /\ StillCompleted(Test_Completed, u)
      /\ \A o \in LoginOutcomes : StillCompleted(o.Test_Completed, u)
      /\ \A x \in SubmitInputs :
           StillCompleted(submit_answers(x[1], x[2], x[3], x[4], x[5]).Test_Completed, u)

\* a completed student for whom a login and a further submit are accepted
C29_Witness ==
  \E u \in UserIds :
    /\ IsCompleted(Test_Completed, u)
    /\ \E o \in LoginOutcomes :
         o.status = 200 /\ o.user_id = u /\ o.test_completed
    /\ \E x \in SubmitInputs :
         /\ x[1] = u /\ x[3] \in {"A", "D"}
         /\ submit_answers(x[1], x[2], x[3], x[4], x[5]).status = 200

====
